---- MODULE Spec2Model ----
(***************************************************************************)
(* Funding-rate tracker: the history sync coordinator (backward backfill   *)
(* and forward catch-up), the live collector with its live-fetch dispatch, *)
(* the exchange adapter's windowing helpers and the unit of work with the  *)
(* bulk-insert-ignore persistence it commits.                              *)
(*                                                                         *)
(* Time is counted in hours (the smallest funding interval of a venue);    *)
(* the adapter converts to and from epoch milliseconds as the code does.   *)
(***************************************************************************)
EXTENDS Integers, Sequences, FiniteSets, Bags, TLC

\* ------------------------------------------------------------------ bounds
\* Last hour of the modelled time line (hours 0..MaxNow).
MaxNow == 5
\* _FETCH_STEP of the modelled adapter, in hours (scaled down from 498).
FETCH_STEP == 2
\* Number of contracts of the section.
NContracts == 3
\* Size of the worker pool of the live fan-out.
MaxWorkers == 2
\* collect_live invocations explored.
MaxLiveRuns == 2
\* Hours over which the anchors of the backward windows range.
MaxAnchorHours == 15
\* Class statements deriving adapter classes.
MaxClasses == 3
\* Latest timestamp of the rows handed to the storage contract directly.
MaxStoreTime == 1

\* ------------------------------------------------------------- state
VARIABLES
    now,            \* datetime.now(), in hours
    schedule,       \* settlement hours of the history contract at the venue
    endInclusive,   \* whether the venue counts a record at endTime as in the window
    histTable,      \* committed HistoricalFundingPoint rows (a bag of rows)
    hOp,            \* running history operation: "none", "sync", "update"
    hPc,            \* its position
    hInflight,      \* window requests in flight (set of [start_ms, end_ms])
    hBatch,         \* the window answered last and its points (None: nothing in hand)
    hSession,       \* rows as the open unit's session sees them (None: no unit open)
    hOldest,        \* oldest timestamp seen so far in this run (None: nothing seen)
    hErr,           \* the error the invocation surfaced to its caller
    hStartKeys,     \* history: timestamps stored when the run started
    hNow0,          \* history: now when the run started
    hRunFetched,    \* history: timestamps returned by the windows of this run
    hRunCommitted,  \* history: timestamps of the batches whose unit committed in this run
    hReqs,          \* history: windows requested in this run
    hDone,          \* history: windows of this run whose batch was committed
    hResumed,       \* history: this run follows a run that crashed
    hPrevReqs,      \* history: windows the crashed run requested
    hPrevDone,      \* history: windows of the crashed run whose batch was committed
    hPrevStartKeys, \* history: timestamps stored when the crashed run started
    contractTable,  \* the section's Contract rows: id -> [active, funding_interval_hours]
    adapterKind,    \* the adapter's live capability: "batch" or "single"
    liveTable,      \* committed LiveFundingPoint rows (a bag of rows)
    lPc,            \* position of collect_live
    lSession,       \* rows as the open unit's session sees them (None: no unit open)
    lContracts,     \* contracts: the active contracts read at the start
    lRates,         \* rates_by_contract: contract -> FundingPoint
    lRecords,       \* live_records
    lErr,           \* the error collect_live raised
    lRaised,        \* history: the error the adapter's live fetch raised
    lUnits,         \* number of units collect_live has open
    lExit,          \* history: the last exit of a unit of collect_live
    lLog,           \* the counts collect_live logged (None: nothing logged)
    foPending,      \* fan-out: contracts whose fetch_live call has not started
    foInflight,     \* fan-out: contracts whose fetch_live call is in flight
    lRuns,          \* number of collect_live invocations so far
    lStartTable,    \* history: liveTable when the invocation started
    lAdapterCalls,  \* history: adapter live calls issued in this invocation
    lWriteUnits,    \* history: write units opened in this invocation
    lFailed,        \* history: contracts whose fetch_live call failed in this invocation
    lVenueAnswer,   \* history: symbols the venue's batch answer carried
    storeLast,      \* history: the last direct insert: relation, rows before, batch
    adapterClasses, \* the adapter classes that exist
    adapterRejected,\* history: the class statements the validation refused
    adapterInstances, \* ids of the classes an adapter was built from
    wProbe,         \* the last backward window an adapter computed (None: none yet)
    rPc,            \* where register_contracts stands
    rSession,       \* the Contract rows as the open unit of register_contracts sees them
    rListing,       \* the listing the adapter returned (None: not fetched)
    rTodo,          \* entries of the listing still to be applied, in listing order
    rStartTable,    \* history: the Contract rows when the latest run started
    rDropped,       \* history: the session a failed run rolled back
    uPc,            \* where a scoped unit stands: body, __aexit__'s try, its finally
    uTable,         \* the rows committed to the relation the unit works on
    uSession,       \* the rows as the unit's session sees them (None: no session)
    uExcVal,        \* the exception the body left with ("none": it finished)
    uCalls,         \* the session calls __aexit__ has made, in order
    uAttemptErr,    \* what commit or rollback raised ("none": returned or still running)
    uRaised,        \* what __aexit__ raised to the caller
    uClose          \* session.close(): "none", "running", "done" or "dropped"

histVars == <<histTable, hOp, hPc, hInflight, hBatch, hSession, hOldest, hErr,
              hStartKeys, hNow0, hRunFetched, hRunCommitted, hReqs, hDone,
              hResumed, hPrevReqs, hPrevDone, hPrevStartKeys>>
liveVars == <<liveTable, lPc, lSession, lContracts, lRates, lRecords, lErr, lRaised, lUnits, lExit, lLog,
              foPending, foInflight, lRuns, lStartTable, lAdapterCalls, lWriteUnits,
              lFailed, lVenueAnswer>>
envVars == <<schedule, endInclusive, contractTable, adapterKind>>
storeVars == <<storeLast>>
adapterVars == <<adapterClasses, adapterRejected, adapterInstances, wProbe>>
regVars == <<rPc, rSession, rListing, rTodo, rStartTable, rDropped>>
uowVars == <<uPc, uTable, uSession, uExcVal, uCalls, uAttemptErr, uRaised, uClose>>
vars == <<now, envVars, histVars, liveVars, storeVars, adapterVars, regVars, uowVars>>

\* ------------------------------------------------------------- helpers
None == <<>>
Some(x) == <<x>>

Hours == 0..MaxNow

SetMin(S) == CHOOSE x \in S : \A y \in S : x <= y
SetMax(S) == CHOOSE x \in S : \A y \in S : y <= x

RECURSIVE SortedSeq(_)
SortedSeq(S) ==
    IF S = {} THEN <<>> ELSE <<SetMin(S)>> \o SortedSeq(S \ {SetMin(S)})

SeqRange(s) == {s[i] : i \in 1..Len(s)}

\* The contract ids of the section.
Contracts == 1..NContracts

\* The funding intervals, in hours, a venue lists a contract with.
FundingIntervals == {1, 8}

\* A Contract row, and the Contract relation of a section: one row per stored
\* contract (unique on asset, quote and section).
ContractRow == [active : BOOLEAN, funding_interval_hours : FundingIntervals]
ContractTables == UNION {[S -> ContractRow] : S \in SUBSET Contracts}

\* The contract whose history is synchronised.
HistContract == SetMin(Contracts)

\* datetime -> epoch milliseconds: int(ts.timestamp() * 1000)
ToMs(h) == (h * 3600) * 1000
\* epoch milliseconds -> datetime: datetime.fromtimestamp(ms / 1000.0)
FromMs(ms) == (ms \div 1000) \div 3600

\* The rate the venue publishes for a contract at an instant.
VenueRate(c, h) == ((c + h) % 2) + 1

\* The venue's per-call record cap: the step is the cap minus a safety buffer of 2.
VenueCap == FETCH_STEP + 2

\* ------------------------------------------------------------- the venue
\* Whether the venue counts a record settled at hour h as inside the window.
InWindow(h, start_ms, end_ms) ==
    /\ ToMs(h) >= start_ms
    /\ IF endInclusive THEN ToMs(h) <= end_ms ELSE ToMs(h) < end_ms

\* The venue's answer to one funding-history call: the records of the window
\* that are published (a settlement shows up after its instant), oldest first,
\* cut after the per-call record cap.
VenueRecords(c, start_ms, end_ms) ==
    LET inw == {h \in schedule : h < now /\ InWindow(h, start_ms, end_ms)}
        all == SortedSeq(inw)
        n   == IF Len(all) < VenueCap THEN Len(all) ELSE VenueCap
    IN  [i \in 1..n |-> [time |-> ToMs(all[i]), fundingRate |-> VenueRate(c, all[i])]]

\* ------------------------------------------------------------- the adapter
\* _fetch_history: one FundingPoint per raw record, in the venue's order.
fetch_history(c, start_ms, end_ms) ==
    LET response == VenueRecords(c, start_ms, end_ms)
    IN  [i \in 1..Len(response) |->
            [rate |-> response[i].fundingRate, timestamp |-> FromMs(response[i].time)]]

\* "May contain duplicates": the list as returned, or with its first point twice.
Responses(points) ==
    IF points = <<>> THEN {points} ELSE {points, <<points[1]>> \o points}

\* Mutant: the window is one hour short of the step.
fetch_history_before_short(before_timestamp) ==
    LET end_ms   == ToMs(IF before_timestamp # None THEN before_timestamp[1] ELSE now)
        start_ms == end_ms - ((FETCH_STEP - 1) * 3600 * 1000)
    IN  [start_ms |-> start_ms, end_ms |-> end_ms]

\* Mutant: the anchor is ignored, every window ends now.
fetch_history_before_now(before_timestamp) ==
    LET end_ms   == ToMs(now)
        start_ms == end_ms - (FETCH_STEP * 3600 * 1000)
    IN  [start_ms |-> start_ms, end_ms |-> end_ms]

\* Mutant: without an anchor the window ends at the epoch instead of now.
fetch_history_before_epoch(before_timestamp) ==
    LET end_ms   == ToMs(IF before_timestamp # None THEN before_timestamp[1] ELSE 0)
        start_ms == end_ms - (FETCH_STEP * 3600 * 1000)
    IN  [start_ms |-> start_ms, end_ms |-> end_ms]

\* Mutant: the window is pushed one hour past its anchor.
fetch_history_before_late(before_timestamp) ==
    LET end_ms   == ToMs((IF before_timestamp # None THEN before_timestamp[1] ELSE now) + 1)
        start_ms == end_ms - (FETCH_STEP * 3600 * 1000)
    IN  [start_ms |-> start_ms, end_ms |-> end_ms]

\* fetch_history_before: the window [anchor - _FETCH_STEP hours, anchor], the
\* anchor being now when no timestamp is given.
fetch_history_before(before_timestamp) ==
    LET end_ms   == ToMs(IF before_timestamp # None THEN before_timestamp[1] ELSE now)
        start_ms == end_ms - (FETCH_STEP * 3600 * 1000)
    IN  [start_ms |-> start_ms, end_ms |-> end_ms]

\* fetch_history_after: the window [anchor, now], of any width.
fetch_history_after(after_timestamp) ==
    LET start_ms == ToMs(after_timestamp)
        end_ms   == ToMs(now)
    IN  [start_ms |-> start_ms, end_ms |-> end_ms]

\* ------------------------------------------------------------- persistence
Keys(table) == {[contract_id |-> r.contract_id, timestamp |-> r.timestamp] : r \in BagToSet(table)}
Timestamps(table, c) == {r.timestamp : r \in {x \in BagToSet(table) : x.contract_id = c}}

\* Mutant: every row is inserted, whatever is stored.
bulk_insert_all(table, records) ==
    table (+) [r \in SeqRange(records) |->
                 Cardinality({i \in 1..Len(records) : records[i] = r})]

\* bulk_insert_ignore: rows are inserted in order; a row whose
\* (contract_id, timestamp) is already there is skipped.
RECURSIVE bulk_insert_ignore(_, _)
bulk_insert_ignore(table, records) ==
    IF records = <<>> THEN table
    ELSE LET r == Head(records)
             conflict == \E s \in BagToSet(table) :
                            /\ s.contract_id = r.contract_id
                            /\ s.timestamp = r.timestamp
         IN  bulk_insert_ignore(IF conflict THEN table ELSE table (+) SetToBag({r}),
                                Tail(records))

\* One HistoricalFundingPoint row per fetched point.
HistoricalRecords(c, points) ==
    [i \in 1..Len(points) |->
        [contract_id |-> c, timestamp |-> points[i].timestamp, funding_rate |-> points[i].rate]]

\* ------------------------------------------------------------- unit of work
\* __aenter__: a fresh session, which sees the committed rows.
aenter(table) == table

\* Mutant: the exit rolls back whatever the body did.
aexit_rollback(exc_val, table, session) ==
    [table       |-> table,
     committed   |-> FALSE,
     rolled_back |-> TRUE,
     closed      |-> TRUE]

\* Mutant: the exit commits whatever the body did, raised or not.
aexit_commits_on_error(exc_val, table, session) ==
    [table       |-> session,
     committed   |-> TRUE,
     rolled_back |-> FALSE,
     closed      |-> TRUE]

\* Mutant: the rollback of a raised body leaves the body's writes in place.
aexit_keeps_writes(exc_val, table, session) ==
    [table       |-> session,
     committed   |-> ~exc_val,
     rolled_back |-> exc_val,
     closed      |-> TRUE]

\* Mutant: the exit does not close the session.
aexit_leaves_open(exc_val, table, session) ==
    [table       |-> IF exc_val THEN table ELSE session,
     committed   |-> ~exc_val,
     rolled_back |-> exc_val,
     closed      |-> FALSE]

\* __aexit__: rollback when the body raised, commit otherwise; the session is
\* closed in either case.
aexit(exc_val, table, session) ==
    [table       |-> IF exc_val THEN table ELSE session,
     committed   |-> ~exc_val,
     rolled_back |-> exc_val,
     closed      |-> TRUE]

\* ------------------------------------------------------------- initial state
Init ==
    /\ now \in Hours
    /\ contractTable \in ContractTables
    /\ adapterKind \in {"batch", "single"}
    /\ liveTable = EmptyBag
    /\ lPc = "idle"
    /\ lSession = None
    /\ lContracts = {}
    /\ lRates = <<>>
    /\ lRecords = <<>>
    /\ lErr = "none"
    /\ lRaised = "none"
    /\ lUnits = 0
    /\ lExit = None
    /\ rPc = "idle"
    /\ rSession = None
    /\ rListing = None
    /\ rTodo = <<>>
    /\ rStartTable = contractTable
    /\ rDropped = None
    /\ uPc = "idle"
    /\ uTable = EmptyBag
    /\ uSession = None
    /\ uExcVal = "none"
    /\ uCalls = <<>>
    /\ uAttemptErr = "none"
    /\ uRaised = "none"
    /\ uClose = "none"
    /\ lLog = None
    /\ foPending = {}
    /\ foInflight = {}
    /\ lRuns = 0
    /\ lStartTable = EmptyBag
    /\ lAdapterCalls = 0
    /\ lWriteUnits = 0
    /\ lFailed = {}
    /\ lVenueAnswer = {}
    /\ storeLast = None
    /\ adapterClasses = {}
    /\ adapterRejected = {}
    /\ adapterInstances = {}
    /\ wProbe = None
    /\ schedule \in SUBSET (Hours \ {MaxNow})
    /\ endInclusive \in BOOLEAN
    /\ histTable = EmptyBag
    /\ hOp = "none"
    /\ hPc = "idle"
    /\ hInflight = {}
    /\ hBatch = None
    /\ hSession = None
    /\ hOldest = None
    /\ hErr = "none"
    /\ hStartKeys = {}
    /\ hNow0 = 0
    /\ hRunFetched = {}
    /\ hRunCommitted = {}
    /\ hReqs = {}
    /\ hDone = {}
    /\ hResumed = FALSE
    /\ hPrevReqs = {}
    /\ hPrevDone = {}
    /\ hPrevStartKeys = {}

\* ------------------------------------------------------------- the clock
Tick ==
    /\ now < MaxNow
    /\ now' = now + 1
    /\ UNCHANGED <<uowVars, envVars, regVars, adapterVars, histVars, liveVars, storeVars>>

\* ------------------------------------------------------------- history sync
\* The scheduler triggers a history operation when none is running.
HistoryIdle == hPc \in {"idle", "done", "failed", "crashed"}

PointTimestamps(points) == {points[i].timestamp : i \in 1..Len(points)}

\* The bookkeeping every new run starts with.
HistoryRunStarts(op, window) ==
    /\ hOp' = op
    /\ hPc' = "request"
    /\ hInflight' = {window}
    /\ hBatch' = None
    /\ hSession' = None
    /\ hOldest' = None
    /\ hErr' = "none"
    /\ hStartKeys' = Timestamps(histTable, HistContract)
    /\ hNow0' = now
    /\ hRunFetched' = {}
    /\ hRunCommitted' = {}
    /\ hReqs' = {window}
    /\ hDone' = {}
    /\ hResumed' = (op = "sync" /\ hOp = "sync" /\ hPc = "crashed")
    /\ hPrevReqs' = IF hResumed' THEN hReqs ELSE {}
    /\ hPrevDone' = IF hResumed' THEN hDone ELSE {}
    /\ hPrevStartKeys' = IF hResumed' THEN hStartKeys ELSE {}

\* sync_contract starts: the first window is anchored at now.
sync_contract_start ==
    /\ HistoryIdle
    /\ HistoryRunStarts("sync", fetch_history_before(None))
    /\ UNCHANGED <<uowVars, now, envVars, regVars, adapterVars, histTable, liveVars, storeVars>>

\* update_contract starts: it reads the newest stored timestamp of the contract
\* (the beginning of time when there is none) and asks for everything after it.
update_contract_start ==
    /\ HistoryIdle
    /\ LET stored == Timestamps(histTable, HistContract)
           anchor == IF stored = {} THEN 0 ELSE SetMax(stored)
       IN  HistoryRunStarts("update", fetch_history_after(anchor))
    /\ UNCHANGED <<uowVars, now, envVars, regVars, adapterVars, histTable, liveVars, storeVars>>

\* The venue answers the window in flight. An empty window ends the operation;
\* a batch goes on to be persisted.
history_window_returns ==
    /\ hPc = "request"
    /\ \E w \in hInflight :
       \E points \in Responses(fetch_history(HistContract, w.start_ms, w.end_ms)) :
          /\ hInflight' = hInflight \ {w}
          /\ hRunFetched' = hRunFetched \cup PointTimestamps(points)
          /\ IF points = <<>>
             THEN hPc' = "done" /\ hBatch' = None
             ELSE hPc' = "write" /\ hBatch' = Some([window |-> w, points |-> points])
    /\ UNCHANGED <<uowVars, now, envVars, regVars, adapterVars, liveVars, storeVars, histTable, hOp, hSession, hOldest, hErr, hStartKeys,
                   hNow0, hRunCommitted, hReqs, hDone, hResumed, hPrevReqs, hPrevDone, hPrevStartKeys>>

\* The fetch of the window in flight fails: the error goes to the caller.
history_fetch_fails ==
    /\ hPc = "request"
    /\ hPc' = "failed"
    /\ hErr' = "FetchError"
    /\ hInflight' = {}
    /\ UNCHANGED <<uowVars, now, envVars, regVars, adapterVars, liveVars, storeVars, histTable, hOp, hBatch, hSession, hOldest, hStartKeys,
                   hNow0, hRunFetched, hRunCommitted, hReqs, hDone, hResumed,
                   hPrevReqs, hPrevDone, hPrevStartKeys>>

\* A unit is opened for the batch and the rows are bulk-insert-ignored in it.
history_persist ==
    /\ hPc = "write"
    /\ hSession' = Some(bulk_insert_ignore(aenter(histTable),
                                           HistoricalRecords(HistContract, hBatch[1].points)))
    /\ hPc' = "exit"
    /\ UNCHANGED <<uowVars, now, envVars, regVars, adapterVars, liveVars, storeVars, histTable, hOp, hInflight, hBatch, hOldest, hErr,
                   hStartKeys, hNow0, hRunFetched, hRunCommitted, hReqs, hDone,
                   hResumed, hPrevReqs, hPrevDone, hPrevStartKeys>>

\* The unit exits; sync_contract then moves its anchor to the oldest timestamp
\* seen so far and requests the next window, update_contract is done.
history_unit_exits ==
    /\ hPc = "exit"
    /\ LET exit   == aexit(FALSE, histTable, hSession[1])
           seen   == PointTimestamps(hBatch[1].points)
                        \cup (IF hOldest = None THEN {} ELSE {hOldest[1]})
           oldest == Some(SetMin(seen))
           next   == fetch_history_before(oldest)
       IN  /\ histTable' = exit.table
           /\ hSession' = None
           /\ hRunCommitted' = hRunCommitted \cup PointTimestamps(hBatch[1].points)
           /\ hDone' = hDone \cup {hBatch[1].window}
           /\ hBatch' = None
           /\ IF hOp = "sync"
              THEN /\ hOldest' = oldest
                   /\ hInflight' = {next}
                   /\ hReqs' = hReqs \cup {next}
                   /\ hPc' = "request"
              ELSE /\ hPc' = "done"
                   /\ UNCHANGED <<hOldest, hInflight, hReqs>>
    /\ UNCHANGED <<uowVars, now, envVars, regVars, adapterVars, liveVars, storeVars, hOp, hErr, hStartKeys, hNow0, hRunFetched,
                   hResumed, hPrevReqs, hPrevDone, hPrevStartKeys>>

\* The process dies in the middle of a history operation: what the open unit
\* had not committed is lost, what was committed stays.
history_crash ==
    /\ hPc \in {"request", "write", "exit"}
    /\ hPc' = "crashed"
    /\ hInflight' = {}
    /\ hBatch' = None
    /\ hSession' = None
    /\ UNCHANGED <<uowVars, now, envVars, regVars, adapterVars, liveVars, storeVars, histTable, hOp, hOldest, hErr, hStartKeys, hNow0,
                   hRunFetched, hRunCommitted, hReqs, hDone, hResumed, hPrevReqs,
                   hPrevDone, hPrevStartKeys>>

HistoryStep ==
    \/ history_window_returns
    \/ history_persist
    \/ history_unit_exits

NextHistory ==
    \/ Tick
    \/ sync_contract_start
    \/ update_contract_start
    \/ history_window_returns
    \/ history_fetch_fails
    \/ history_persist
    \/ history_unit_exits
    \/ history_crash

\* The history coordinator alone: the live side stays as constructed.
InitHistory ==
    /\ Init
    /\ now = 0
    /\ adapterKind = "batch"
    /\ contractTable = [c \in Contracts |-> [active |-> FALSE, funding_interval_hours |-> 1]]

SpecHistory == InitHistory /\ [][NextHistory]_vars

\* A run that neither crashes nor is refused by the venue takes its next step.
FairSpecHistory == SpecHistory /\ WF_vars(HistoryStep)

\* ------------------------------------------------------------- live adapter
\* _format_symbol: the venue's symbol of a contract (its asset name).
format_symbol(c) == <<"asset", c>>

\* A symbol the venue lists that no stored contract formats to.
UnlistedSymbol == <<"asset", 0>>
VenueSymbols == {format_symbol(c) : c \in Contracts} \cup {UnlistedSymbol}

\* The rate accruing for a symbol at an instant.
LiveRate(symbol, t) == ((symbol[2] + t) % 2) + 1

\* fetch_live_batch: one FundingPoint, stamped with the time of the call, for
\* every asset context of the venue's answer that carries a funding rate.
fetch_live_batch(answer, t) ==
    [symbol \in answer |-> [rate |-> LiveRate(symbol, t), timestamp |-> t]]

\* fetch_live(symbol): raises (None) when the venue has no data for the symbol.
fetch_live(symbol, data, t) ==
    IF ~data THEN None ELSE Some([rate |-> LiveRate(symbol, t), timestamp |-> t])

\* Mutant: every stored contract whose symbol the batch answer carries gets
\* an entry, requested or not.
fetch_live_from_batch_unfiltered(contracts, batch) ==
    [c \in {x \in Contracts : format_symbol(x) \in DOMAIN batch} |-> batch[format_symbol(c)]]

\* The list form of fetch_live over a batch-capable adapter: the requested
\* contracts whose symbol the batch answer carries.
fetch_live_from_batch(contracts, batch) ==
    [c \in {x \in contracts : format_symbol(x) \in DOMAIN batch} |-> batch[format_symbol(c)]]

\* Mutant: a call is started for every contract at once, whatever is in flight.
worker_slot_always(inflight) == TRUE

\* Fan-out: a worker of the fixed-size pool is free to start a call.
worker_slot_free(inflight) == Cardinality(inflight) < MaxWorkers

\* Fan-out: what a failed single call raises to the caller (nothing: dropped).
fanout_error(c) == "none"

\* Fan-out: a successful single call is merged into the result map.
fanout_merge(rates, c, point) ==
    [x \in DOMAIN rates \cup {c} |-> IF x = c THEN point ELSE rates[x]]

\* ------------------------------------------------------------- collect_live
\* contracts.get_active_by_section
get_active_by_section(table) == {c \in DOMAIN table : table[c].active}

\* `if not contracts`
no_contracts(contracts) == contracts = {}

\* Mutant: an empty rate map is not recognised.
no_rates_never(rates_by_contract) == FALSE

\* `if not rates_by_contract`
no_rates(rates_by_contract) == DOMAIN rates_by_contract = {}

\* Mutant: only the first contract's rate becomes a record.
live_records_first(rates_by_contract) ==
    LET c == SetMin(DOMAIN rates_by_contract)
    IN  <<[contract_id  |-> c,
           timestamp    |-> rates_by_contract[c].timestamp,
           funding_rate |-> rates_by_contract[c].rate]>>

\* live_records: one LiveFundingPoint per entry of the rate map.
live_records(rates_by_contract) ==
    LET cs == SortedSeq(DOMAIN rates_by_contract)
    IN  [i \in 1..Len(cs) |->
            [contract_id  |-> cs[i],
             timestamp    |-> rates_by_contract[cs[i]].timestamp,
             funding_rate |-> rates_by_contract[cs[i]].rate]]

success_count(records) == Len(records)

\* Mutant: every requested contract is counted as failed.
failure_count_total(contracts, records) == Cardinality(contracts)

failure_count(contracts, records) == Cardinality(contracts) - success_count(records)

\* The closing log line: counts at info level when something failed.
log_counts(contracts, records) ==
    [success |-> success_count(records),
     failure |-> failure_count(contracts, records),
     level   |-> IF failure_count(contracts, records) > 0 THEN "info" ELSE "debug"]

\* The errors an adapter's live fetch raises (transport, malformed answer).
AdapterErrors == {"HTTPError", "KeyError"}

\* Mutant: the adapter's error is wrapped in an error of the coordinator.
await_fetch_live_wrapped(error) == "CollectError"

\* `await exchange_adapter.fetch_live(...)` outside any try: what the call
\* raises is what collect_live raises.
await_fetch_live(error) == error

LiveIdle == lPc \in {"idle", "done", "raised", "cancelled"}

\* A unit of collect_live exits: __aexit__ commits or rolls back and closes
\* the session.
UnitExits(exc_val, session) ==
    LET exit == aexit(exc_val, liveTable, session)
    IN  /\ liveTable' = exit.table
        /\ lSession' = None
        /\ lUnits' = IF exit.closed THEN lUnits - 1 ELSE lUnits
        /\ lExit' = Some([exc_val |-> exc_val, before |-> liveTable,
                          session |-> session, exit |-> exit, interrupted |-> FALSE])

\* The rows a cancelled bulk_insert_ignore may have reached the session with.
Prefixes(records) == {SubSeq(records, 1, n) : n \in 0..Len(records)}

\* The scheduler invokes collect_live; the first unit opens and reads the
\* section's active contracts.
collect_live_start ==
    /\ LiveIdle
    /\ lRuns < MaxLiveRuns
    /\ lRuns' = lRuns + 1
    /\ lSession' = Some(aenter(liveTable))
    /\ lContracts' = get_active_by_section(contractTable)
    /\ lPc' = "read"
    /\ lStartTable' = liveTable
    /\ lRates' = <<>>
    /\ lRecords' = <<>>
    /\ lErr' = "none"
    /\ lRaised' = "none"
    /\ lUnits' = lUnits + 1
    /\ lExit' = None
    /\ lLog' = None
    /\ foPending' = {}
    /\ foInflight' = {}
    /\ lAdapterCalls' = 0
    /\ lWriteUnits' = 0
    /\ lFailed' = {}
    /\ lVenueAnswer' = {}
    /\ UNCHANGED <<uowVars, now, envVars, regVars, adapterVars, histVars, storeVars, liveTable>>

\* The read unit exits; without contracts collect_live returns, otherwise
\* the adapter is asked for the live rates of the contracts.
collect_live_contracts_read ==
    /\ lPc = "read"
    /\ UnitExits(FALSE, lSession[1])
    /\ IF no_contracts(lContracts)
       THEN /\ lPc' = "done"
            /\ UNCHANGED <<lAdapterCalls, foPending>>
       ELSE /\ lPc' = "fetch"
            /\ lAdapterCalls' = IF adapterKind = "batch" THEN 1 ELSE 0
            /\ foPending' = IF adapterKind = "single" THEN lContracts ELSE {}
    /\ UNCHANGED <<uowVars, now, envVars, regVars, adapterVars, histVars, storeVars, lRaised, lContracts, lRates, lRecords, lErr,
                   lLog, foInflight, lRuns, lStartTable, lWriteUnits, lFailed,
                   lVenueAnswer>>

\* What collect_live does with the rate map: return when it is empty,
\* build the records otherwise.
RatesReceived(rates_by_contract) ==
    /\ lRates' = rates_by_contract
    /\ IF no_rates(rates_by_contract)
       THEN /\ lPc' = "done"
            /\ lRecords' = <<>>
       ELSE /\ lPc' = "write"
            /\ lRecords' = live_records(rates_by_contract)

\* The venue answers the batch call.
live_batch_returns ==
    /\ lPc = "fetch"
    /\ adapterKind = "batch"
    /\ \E answer \in SUBSET VenueSymbols :
          /\ lVenueAnswer' = answer
          /\ RatesReceived(fetch_live_from_batch(lContracts, fetch_live_batch(answer, now)))
    /\ UNCHANGED <<uowVars, now, envVars, regVars, adapterVars, histVars, storeVars, lRaised, lUnits, lExit, liveTable, lSession, lContracts, lErr,
                   lLog, foPending, foInflight, lRuns, lStartTable, lAdapterCalls,
                   lWriteUnits, lFailed>>

\* The batch call raises; collect_live does not catch it.
live_fetch_raises ==
    /\ lPc = "fetch"
    /\ adapterKind = "batch"
    /\ \E e \in AdapterErrors :
          /\ lRaised' = e
          /\ lErr' = await_fetch_live(e)
    /\ lPc' = "raised"
    /\ UNCHANGED <<uowVars, now, envVars, regVars, adapterVars, histVars, storeVars, lUnits, lExit, liveTable, lSession, lContracts, lRates,
                   lRecords, lLog, foPending, foInflight, lRuns, lStartTable,
                   lAdapterCalls, lWriteUnits, lFailed, lVenueAnswer>>

\* Fan-out: a worker of the pool starts the single call of one contract.
fanout_call_starts ==
    /\ lPc = "fetch"
    /\ adapterKind = "single"
    /\ worker_slot_free(foInflight)
    /\ \E c \in foPending :
          /\ foPending' = foPending \ {c}
          /\ foInflight' = foInflight \cup {c}
    /\ lAdapterCalls' = lAdapterCalls + 1
    /\ UNCHANGED <<uowVars, now, envVars, regVars, adapterVars, histVars, storeVars, lRaised, lUnits, lExit, liveTable, lPc, lSession, lContracts,
                   lRates, lRecords, lErr, lLog, lRuns, lStartTable, lWriteUnits,
                   lFailed, lVenueAnswer>>

\* Fan-out: a single call returns its point.
fanout_call_returns ==
    /\ lPc = "fetch"
    /\ \E c \in foInflight :
          /\ foInflight' = foInflight \ {c}
          /\ lRates' = fanout_merge(lRates, c, fetch_live(format_symbol(c), TRUE, now)[1])
    /\ UNCHANGED <<uowVars, now, envVars, regVars, adapterVars, histVars, storeVars, lRaised, lUnits, lExit, liveTable, lPc, lSession, lContracts,
                   lRecords, lErr, lLog, foPending, lRuns, lStartTable, lAdapterCalls,
                   lWriteUnits, lFailed, lVenueAnswer>>

\* Fan-out: a single call raises.
fanout_call_fails ==
    /\ lPc = "fetch"
    /\ \E c \in foInflight :
          /\ fetch_live(format_symbol(c), FALSE, now) = None
          /\ foInflight' = foInflight \ {c}
          /\ lFailed' = lFailed \cup {c}
          /\ lErr' = fanout_error(c)
    /\ lPc' = IF lErr' = "none" THEN lPc ELSE "raised"
    /\ UNCHANGED <<uowVars, now, envVars, regVars, adapterVars, histVars, storeVars, lRaised, lUnits, lExit, liveTable, lSession, lContracts, lRates,
                   lRecords, lLog, foPending, lRuns, lStartTable, lAdapterCalls,
                   lWriteUnits, lVenueAnswer>>

\* Fan-out: every call has ended; the merged map goes back to collect_live.
fanout_returns ==
    /\ lPc = "fetch"
    /\ adapterKind = "single"
    /\ foPending = {}
    /\ foInflight = {}
    /\ RatesReceived(lRates)
    /\ UNCHANGED <<uowVars, now, envVars, regVars, adapterVars, histVars, storeVars, lRaised, lUnits, lExit, liveTable, lSession, lContracts, lErr,
                   lLog, foPending, foInflight, lRuns, lStartTable, lAdapterCalls,
                   lWriteUnits, lFailed, lVenueAnswer>>

\* The write unit opens and bulk-insert-ignores the records.
collect_live_persist ==
    /\ lPc = "write"
    /\ lSession' = Some(bulk_insert_ignore(aenter(liveTable), lRecords))
    /\ lWriteUnits' = lWriteUnits + 1
    /\ lUnits' = lUnits + 1
    /\ lPc' = "exit"
    /\ UNCHANGED <<uowVars, now, envVars, regVars, adapterVars, histVars, storeVars, lRaised, lExit, liveTable, lContracts, lRates, lRecords,
                   lErr, lLog, foPending, foInflight, lRuns, lStartTable,
                   lAdapterCalls, lFailed, lVenueAnswer>>

\* The write unit exits; collect_live logs its counts and returns.
collect_live_unit_exits ==
    /\ lPc = "exit"
    /\ UnitExits(FALSE, lSession[1])
    /\ lLog' = Some(log_counts(lContracts, lRecords))
    /\ lPc' = "done"
    /\ UNCHANGED <<uowVars, now, envVars, regVars, adapterVars, histVars, storeVars, lRaised, lContracts, lRates, lRecords, lErr,
                   foPending, foInflight, lRuns, lStartTable, lAdapterCalls,
                   lWriteUnits, lFailed, lVenueAnswer>>

\* The job is cancelled while collect_live waits: in the read unit, on the
\* adapter, between the units, or in the write unit. CancelledError raised in
\* the body of a unit reaches __aexit__ as its exception; raised while the
\* commit is awaited, it leaves the commit either done or not done.
collect_live_cancelled ==
    /\ lPc \in {"read", "fetch", "write", "exit"}
    /\ \/ /\ lPc = "read"
          /\ UnitExits(TRUE, lSession[1])
       \/ /\ lPc \in {"fetch", "write"}
          /\ UNCHANGED <<liveTable, lSession, lUnits, lExit>>
       \/ /\ lPc = "exit"
          /\ \E written \in Prefixes(lRecords) :
                UnitExits(TRUE, bulk_insert_ignore(aenter(liveTable), written))
       \/ /\ lPc = "exit"
          /\ \E committed \in BOOLEAN :
                LET exit == aexit(FALSE, liveTable, lSession[1])
                IN  /\ liveTable' = IF committed THEN exit.table ELSE liveTable
                    /\ lSession' = None
                    /\ lUnits' = IF exit.closed THEN lUnits - 1 ELSE lUnits
                    /\ lExit' = Some([exc_val |-> FALSE, before |-> liveTable,
                                      session |-> lSession[1], exit |-> exit,
                                      interrupted |-> TRUE])
    /\ lPc' = "cancelled"
    /\ lErr' = "CancelledError"
    /\ foPending' = {}
    /\ foInflight' = {}
    /\ UNCHANGED <<uowVars, now, envVars, regVars, adapterVars, histVars, storeVars, lRaised, lContracts,
                   lRates, lRecords, lLog, lRuns, lStartTable, lAdapterCalls,
                   lWriteUnits, lFailed, lVenueAnswer>>

NextLive ==
    \/ Tick
    \/ collect_live_start
    \/ collect_live_contracts_read
    \/ live_batch_returns
    \/ live_fetch_raises
    \/ fanout_call_starts
    \/ fanout_call_returns
    \/ fanout_call_fails
    \/ fanout_returns
    \/ collect_live_persist
    \/ collect_live_unit_exits
    \/ collect_live_cancelled

\* The live collector alone, over any contract set and either kind of adapter.
\* Live points only compare their timestamps with each other, so the passes
\* are followed over the last two hours of the clock.
InitLive ==
    /\ Init
    /\ now = MaxNow - 1
    /\ DOMAIN contractTable = Contracts
    /\ \A c \in Contracts : contractTable[c].funding_interval_hours = 1
    /\ schedule = {}
    /\ endInclusive = FALSE

SpecLive == InitLive /\ [][NextLive]_vars

\* ------------------------------------------------------------- storage contract
\* The rows a caller may hand to bulk_insert_ignore.
StoreRows ==
    [contract_id : {HistContract}, timestamp : 0..MaxStoreTime, funding_rate : {1, 2}]

\* The batches: up to two rows, in either order, repeats included.
Batches == {<<>>} \cup {<<r>> : r \in StoreRows} \cup {<<r, s>> : r, s \in StoreRows}

\* The rows of a batch that find their key taken when their turn comes.
RECURSIVE Skipped(_, _)
Skipped(table, records) ==
    IF records = <<>> THEN 0
    ELSE LET r == Head(records)
             after == bulk_insert_ignore(table, <<r>>)
         IN  (IF after = table THEN 1 ELSE 0) + Skipped(after, Tail(records))

\* A unit bulk-insert-ignores a batch into the historical relation.
store_historical ==
    /\ \E batch \in Batches :
          /\ histTable' = aexit(FALSE, histTable,
                                bulk_insert_ignore(aenter(histTable), batch)).table
          /\ storeLast' = Some([relation |-> "historical", before |-> histTable,
                                 batch |-> batch])
    /\ UNCHANGED <<uowVars, now, envVars, regVars, adapterVars, liveVars, hOp, hPc, hInflight, hBatch, hSession, hOldest,
                   hErr, hStartKeys, hNow0, hRunFetched, hRunCommitted, hReqs, hDone,
                   hResumed, hPrevReqs, hPrevDone, hPrevStartKeys>>

\* A unit bulk-insert-ignores a batch into the live relation.
store_live ==
    /\ \E batch \in Batches :
          /\ liveTable' = aexit(FALSE, liveTable,
                                bulk_insert_ignore(aenter(liveTable), batch)).table
          /\ storeLast' = Some([relation |-> "live", before |-> liveTable,
                                 batch |-> batch])
    /\ UNCHANGED <<uowVars, now, envVars, regVars, adapterVars, histVars, lRaised, lUnits, lExit, lPc, lSession, lContracts, lRates, lRecords,
                   lErr, lLog, foPending, foInflight, lRuns, lStartTable, lAdapterCalls,
                   lWriteUnits, lFailed, lVenueAnswer>>

NextStore ==
    \/ store_historical
    \/ store_live

\* The storage contract alone: both relations start empty.
InitStore ==
    /\ InitHistory
    /\ schedule = {}
    /\ endInclusive = FALSE

SpecStore == InitStore /\ [][NextStore]_vars

\* ------------------------------------------------------------- adapter classes
\* The names a class body can bind that the validation looks at.
AdapterAttrs == {"EXCHANGE_ID", "fetch_live_batch", "fetch_live"}

\* BaseExchange itself: it annotates EXCHANGE_ID without binding it and
\* defines both live methods (raising NotImplementedError).
BaseExchange == 0
BaseExchangeDict == {"fetch_live_batch", "fetch_live"}

\* The class a class id names, among the classes that exist.
ClassOf(id) == CHOOSE k \in adapterClasses : k.id = id

\* The classes a class inherits from, nearest first, BaseExchange excluded.
RECURSIVE Ancestors(_)
Ancestors(cls) ==
    IF cls.parent = BaseExchange THEN <<>>
    ELSE <<ClassOf(cls.parent)>> \o Ancestors(ClassOf(cls.parent))

\* hasattr(cls, name): bound in the class, in an ancestor, or in BaseExchange.
hasattr(cls, name) ==
    \/ name \in cls.dict
    \/ \E i \in 1..Len(Ancestors(cls)) : name \in Ancestors(cls)[i].dict
    \/ name \in BaseExchangeDict

\* __init_subclass__: the error the class statement raises, or "none".
init_subclass(cls) ==
    LET has_batch == "fetch_live_batch" \in cls.dict
        has_individual == "fetch_live" \in cls.dict
    IN  IF ~hasattr(cls, "EXCHANGE_ID") THEN "NotImplementedError"
        ELSE IF ~has_batch /\ ~has_individual THEN "NotImplementedError"
        ELSE "none"

\* A class statement deriving from BaseExchange or from an existing adapter
\* class runs the validation; the class exists only if it passes.
define_adapter_class ==
    /\ Cardinality(adapterClasses) + Cardinality(adapterRejected) < MaxClasses
    /\ \E parent \in {BaseExchange} \cup {k.id : k \in adapterClasses},
          dict \in SUBSET AdapterAttrs :
          LET cls == [id     |-> Cardinality(adapterClasses) + Cardinality(adapterRejected) + 1,
                      parent |-> parent,
                      dict   |-> dict]
          IN  IF init_subclass(cls) = "none"
              THEN /\ adapterClasses' = adapterClasses \cup {cls}
                   /\ UNCHANGED adapterRejected
              ELSE /\ adapterRejected' = adapterRejected \cup {cls}
                   /\ UNCHANGED adapterClasses
    /\ UNCHANGED <<uowVars, now, envVars, regVars, histVars, liveVars, storeVars, adapterInstances, wProbe>>

\* An adapter is built from a class that exists.
construct_adapter ==
    /\ \E cls \in adapterClasses :
          /\ cls.id \notin adapterInstances
          /\ adapterInstances' = adapterInstances \cup {cls.id}
    /\ UNCHANGED <<uowVars, now, envVars, regVars, histVars, liveVars, storeVars, adapterClasses,
                   adapterRejected, wProbe>>

NextAdapters ==
    \/ define_adapter_class
    \/ construct_adapter

\* The class statements alone.
InitAdapters ==
    /\ InitStore

SpecAdapters == InitAdapters /\ [][NextAdapters]_vars

\* ------------------------------------------------------------- fetch windows
\* The backward step of each adapter, in hours.
BINANCE_USDM_MAX_FETCH_WINDOW_HOURS == 1000
BINANCE_COINM_MAX_FETCH_WINDOW_HOURS == 8000
BYBIT_MAX_FETCH_WINDOW_HOURS == 198
HYPERLIQUID_FETCH_STEP == 498

\* The most records each venue returns to one call.
BINANCE_USDM_LIMIT == 1000
BINANCE_COINM_LIMIT == 1000
BYBIT_MAX_RECORDS == 200
HYPERLIQUID_MAX_RECORDS == 500

\* The shortest funding interval among each venue's contracts, in hours.
BINANCE_USDM_MIN_INTERVAL == 1
BINANCE_COINM_MIN_INTERVAL == 8
BYBIT_MIN_INTERVAL == 1
HYPERLIQUID_MIN_INTERVAL == 1

Venues == {"binance_usd-m", "binance_coin-m", "bybit", "hyperliquid"}

VenueStep(v) ==
    CASE v = "binance_usd-m"  -> BINANCE_USDM_MAX_FETCH_WINDOW_HOURS
      [] v = "binance_coin-m" -> BINANCE_COINM_MAX_FETCH_WINDOW_HOURS
      [] v = "bybit"          -> BYBIT_MAX_FETCH_WINDOW_HOURS
      [] v = "hyperliquid"    -> HYPERLIQUID_FETCH_STEP

VenueLimit(v) ==
    CASE v = "binance_usd-m"  -> BINANCE_USDM_LIMIT
      [] v = "binance_coin-m" -> BINANCE_COINM_LIMIT
      [] v = "bybit"          -> BYBIT_MAX_RECORDS
      [] v = "hyperliquid"    -> HYPERLIQUID_MAX_RECORDS

VenueMinInterval(v) ==
    CASE v = "binance_usd-m"  -> BINANCE_USDM_MIN_INTERVAL
      [] v = "binance_coin-m" -> BINANCE_COINM_MIN_INTERVAL
      [] v = "bybit"          -> BYBIT_MIN_INTERVAL
      [] v = "hyperliquid"    -> HYPERLIQUID_MIN_INTERVAL

\* The backward window of an adapter for an anchor:
\* start_time_ms = end_time_ms - (step * 60 * 60 * 1000). Instants are kept
\* in seconds here, a thousandth of the code's, to stay within 32-bit integers.
backward_window(v, end_time_s) ==
    [start_s |-> end_time_s - (VenueStep(v) * 60 * 60), end_s |-> end_time_s]

\* The settlement instants, in seconds, of a contract that settles every
\* `interval` hours, inside a window with both bounds included.
SettlementsIn(interval, window) ==
    LET every == interval * 3600
    IN  {t \in {k * every : k \in (window.start_s \div every)..(window.end_s \div every)} :
            window.start_s <= t /\ t <= window.end_s}

\* The anchors tried: every half hour of a stretch that begins late enough
\* for the widest window to start after the epoch.
AnchorsS ==
    {((BINANCE_COINM_MAX_FETCH_WINDOW_HOURS + h) * 3600) + (half * 1800) :
        h \in 0..MaxAnchorHours, half \in {0, 1}}

\* An adapter computes the backward window of an anchor.
request_backward_window ==
    /\ \E v \in Venues, anchor_s \in AnchorsS :
          wProbe' = Some([venue    |-> v,
                          anchor_s |-> anchor_s,
                          window   |-> backward_window(v, anchor_s)])
    /\ UNCHANGED <<uowVars, now, envVars, regVars, histVars, liveVars, storeVars, adapterClasses,
                   adapterRejected, adapterInstances>>

NextWindows ==
    \/ request_backward_window

InitWindows ==
    /\ InitStore

SpecWindows == InitWindows /\ [][NextWindows]_vars

\* ------------------------------------------------------------- contract registry
\* A listing of the venue: the listed contracts, each with its funding interval.
Listings == UNION {[S -> FundingIntervals] : S \in SUBSET Contracts}

\* Look up or create the Contract row of a listed entry, then set its
\* funding_interval_hours and active=true.
upsert_contract(session, c, interval) ==
    [x \in DOMAIN session \cup {c} |->
        IF x = c THEN [active |-> TRUE, funding_interval_hours |-> interval]
                 ELSE session[x]]

\* Mutant: the active contracts the listing lacks are deleted.
delete_absent(session, listed) ==
    LET kept == {x \in DOMAIN session : x \in listed \/ ~session[x].active}
    IN  [x \in kept |-> session[x]]

\* The contracts marked active that the listing lacks are marked active=false.
deactivate_absent(session, listed) ==
    [x \in DOMAIN session |->
        IF x \notin listed /\ session[x].active
        THEN [session[x] EXCEPT !.active = FALSE]
        ELSE session[x]]

RegistryIdle == rPc \in {"idle", "done", "failed"}

\* register_contracts is invoked: its unit opens and the adapter is asked
\* for the listing.
register_contracts_start ==
    /\ RegistryIdle
    /\ rPc' = "listing"
    /\ rSession' = Some(aenter(contractTable))
    /\ rListing' = None
    /\ rTodo' = <<>>
    /\ rStartTable' = contractTable
    /\ rDropped' = None
    /\ UNCHANGED <<uowVars, now, envVars, histVars, liveVars, storeVars, adapterVars>>

\* The adapter returns the listing.
register_listing_returns ==
    /\ rPc = "listing"
    /\ \E listing \in Listings :
          /\ rListing' = Some(listing)
          /\ rTodo' = SortedSeq(DOMAIN listing)
    /\ rPc' = "apply"
    /\ UNCHANGED <<uowVars, now, envVars, histVars, liveVars, storeVars, adapterVars,
                   rSession, rStartTable, rDropped>>

\* The next entry of the listing is applied in the session.
register_entry_applied ==
    /\ rPc = "apply"
    /\ rTodo # <<>>
    /\ rSession' = Some(upsert_contract(rSession[1], Head(rTodo), rListing[1][Head(rTodo)]))
    /\ rTodo' = Tail(rTodo)
    /\ UNCHANGED <<uowVars, now, envVars, histVars, liveVars, storeVars, adapterVars,
                   rPc, rListing, rStartTable, rDropped>>

\* All entries applied: the contracts the listing lacks are delisted.
register_absent_deactivated ==
    /\ rPc = "apply"
    /\ rTodo = <<>>
    /\ rSession' = Some(deactivate_absent(rSession[1], DOMAIN rListing[1]))
    /\ rPc' = "exit"
    /\ UNCHANGED <<uowVars, now, envVars, histVars, liveVars, storeVars, adapterVars,
                   rListing, rTodo, rStartTable, rDropped>>

\* The body finished: the unit exits and commits.
register_contracts_returns ==
    /\ rPc = "exit"
    /\ contractTable' = aexit(FALSE, contractTable, rSession[1]).table
    /\ rSession' = None
    /\ rPc' = "done"
    /\ UNCHANGED <<uowVars, now, schedule, endInclusive, adapterKind, histVars, liveVars,
                   storeVars, adapterVars, rListing, rTodo, rStartTable, rDropped>>

\* The listing fetch fails, or a row operation raises: the unit exits with
\* the exception.
register_contracts_raises ==
    /\ rPc \in {"listing", "apply"}
    /\ contractTable' = aexit(TRUE, contractTable, rSession[1]).table
    /\ rDropped' = rSession
    /\ rSession' = None
    /\ rPc' = "failed"
    /\ UNCHANGED <<uowVars, now, schedule, endInclusive, adapterKind, histVars, liveVars,
                   storeVars, adapterVars, rListing, rTodo, rStartTable>>

NextRegistry ==
    \/ register_contracts_start
    \/ register_listing_returns
    \/ register_entry_applied
    \/ register_absent_deactivated
    \/ register_contracts_returns
    \/ register_contracts_raises

\* The registry alone, over any stored contracts and any listings.
InitRegistry ==
    /\ Init
    /\ now = 0
    /\ adapterKind = "batch"
    /\ schedule = {}
    /\ endInclusive = FALSE

SpecRegistry == InitRegistry /\ [][NextRegistry]_vars

\* ------------------------------------------------------------- a unit, step by step
\* How the body of a unit ends: it finishes, it raises, the task is cancelled.
BodyOutcomes == {"none", "Exception", "CancelledError"}

\* What an awaited commit or rollback raises: a database error, or the
\* cancellation of the task.
AttemptErrors == {"DBAPIError", "CancelledError"}

\* `if exc_val: rollback() else: commit()`
aexit_call(exc_val) == IF exc_val # "none" THEN "rollback" ELSE "commit"

\* Mutant: the close follows the try block instead of standing in its finally.
close_unless_raised(attempt_error) == attempt_error = "none"

\* `finally: await self._close()`: the close is reached whether or not the
\* commit or rollback raised.
finally_close(attempt_error) == TRUE

\* asyncio.shield: when the waiting task is cancelled the close keeps running.
shield(close) == close

UnitIdle == uPc \in {"idle", "exited"} /\ uClose # "running"

\* `async with uow_factory() as uow`: a fresh session.
uow_enter ==
    /\ UnitIdle
    /\ uPc' = "body"
    /\ uSession' = Some(aenter(uTable))
    /\ uExcVal' = "none"
    /\ uCalls' = <<>>
    /\ uAttemptErr' = "none"
    /\ uRaised' = "none"
    /\ uClose' = "none"
    /\ UNCHANGED <<now, envVars, histVars, liveVars, storeVars, adapterVars, regVars, uTable>>

\* The body inserts its rows and ends; __aexit__ is entered with its outcome.
uow_body_ends ==
    /\ uPc = "body"
    /\ \E batch \in Batches, exc_val \in BodyOutcomes :
          /\ uSession' = Some(bulk_insert_ignore(uSession[1], batch))
          /\ uExcVal' = exc_val
    /\ uPc' = "try"
    /\ UNCHANGED <<now, envVars, histVars, liveVars, storeVars, adapterVars, regVars,
                   uTable, uCalls, uAttemptErr, uRaised, uClose>>

\* __aexit__'s try block calls rollback or commit.
aexit_attempt_starts ==
    /\ uPc = "try"
    /\ uCalls' = Append(uCalls, aexit_call(uExcVal))
    /\ uPc' = "attempt"
    /\ UNCHANGED <<now, envVars, histVars, liveVars, storeVars, adapterVars, regVars,
                   uTable, uSession, uExcVal, uAttemptErr, uRaised, uClose>>

\* The commit or rollback returns.
aexit_attempt_returns ==
    /\ uPc = "attempt"
    /\ uTable' = aexit(uExcVal # "none", uTable, uSession[1]).table
    /\ uPc' = "finally"
    /\ UNCHANGED <<now, envVars, histVars, liveVars, storeVars, adapterVars, regVars,
                   uSession, uExcVal, uCalls, uAttemptErr, uRaised, uClose>>

\* The commit or rollback raises, or the task is cancelled while it is
\* awaited; an interrupted commit has either reached the database or not.
aexit_attempt_raises ==
    /\ uPc = "attempt"
    /\ \E e \in AttemptErrors : uAttemptErr' = e
    /\ \E reached \in BOOLEAN :
          uTable' = IF reached /\ aexit_call(uExcVal) = "commit"
                    THEN aexit(FALSE, uTable, uSession[1]).table
                    ELSE uTable
    /\ uPc' = "finally"
    /\ UNCHANGED <<now, envVars, histVars, liveVars, storeVars, adapterVars, regVars,
                   uSession, uExcVal, uCalls, uRaised, uClose>>

\* The finally clause: _close() calls session.close() under the shield.
aexit_close_starts ==
    /\ uPc = "finally"
    /\ IF finally_close(uAttemptErr)
       THEN /\ uCalls' = Append(uCalls, "close")
            /\ uClose' = "running"
            /\ uPc' = "closing"
            /\ uRaised' = uRaised
       ELSE /\ uRaised' = uAttemptErr
            /\ uPc' = "exited"
            /\ UNCHANGED <<uCalls, uClose>>
    /\ UNCHANGED <<now, envVars, histVars, liveVars, storeVars, adapterVars, regVars,
                   uTable, uSession, uExcVal, uAttemptErr>>

\* The close returns; what the try block raised leaves __aexit__.
aexit_close_returns ==
    /\ uPc = "closing"
    /\ uClose' = "done"
    /\ uSession' = None
    /\ uRaised' = uAttemptErr
    /\ uPc' = "exited"
    /\ UNCHANGED <<now, envVars, histVars, liveVars, storeVars, adapterVars, regVars,
                   uTable, uExcVal, uCalls, uAttemptErr>>

\* The task is cancelled while the close is awaited: CancelledError leaves
\* __aexit__, the shielded close goes on.
aexit_close_cancelled ==
    /\ uPc = "closing"
    /\ uClose' = shield(uClose)
    /\ uRaised' = "CancelledError"
    /\ uPc' = "exited"
    /\ UNCHANGED <<now, envVars, histVars, liveVars, storeVars, adapterVars, regVars,
                   uTable, uSession, uExcVal, uCalls, uAttemptErr>>

\* The shielded close finishes after the task has left __aexit__.
shielded_close_completes ==
    /\ uPc = "exited"
    /\ uClose = "running"
    /\ uClose' = "done"
    /\ uSession' = None
    /\ UNCHANGED <<now, envVars, histVars, liveVars, storeVars, adapterVars, regVars,
                   uPc, uTable, uExcVal, uCalls, uAttemptErr, uRaised>>

NextUnit ==
    \/ uow_enter
    \/ uow_body_ends
    \/ aexit_attempt_starts
    \/ aexit_attempt_returns
    \/ aexit_attempt_raises
    \/ aexit_close_starts
    \/ aexit_close_returns
    \/ aexit_close_cancelled
    \/ shielded_close_completes

\* One unit after another over one relation that starts empty.
InitUnit == InitStore

SpecUnit == InitUnit /\ [][NextUnit]_vars

\* ------------------------------------------------------------- the whole program
Next ==
    \/ NextHistory
    \/ NextLive
    \/ NextStore
    \/ NextAdapters
    \/ NextWindows
    \/ NextRegistry
    \/ NextUnit

Spec == Init /\ [][Next]_vars

\* ------------------------------------------------------------- claims: history
StoredTimestamps == Timestamps(histTable, HistContract)

\* One row per (contract_id, timestamp) in the historical relation.
HistUnique == \A r \in BagToSet(histTable) : CopiesIn(r, histTable) = 1 /\
                  \A q \in BagToSet(histTable) :
                      (q.contract_id = r.contract_id /\ q.timestamp = r.timestamp) => q = r

Available == {h \in schedule : h < hNow0}

\* C2 (as claimed): a first sync_contract run that completes leaves every point
\* of the venue's available history in storage, whatever the spacing.
C2_ConvergesAnySpacing ==
    (hOp = "sync" /\ hPc = "done" /\ hStartKeys = {}) => Available \subseteq StoredTimestamps

\* Every point of the available history is reached by the backward walk: the
\* newest lies in the first window and each older one at most a step before
\* the next.
StepSpaced ==
    \A p \in Available :
        IF p = SetMax(Available)
        THEN InWindow(p, ToMs(hNow0) - (FETCH_STEP * 3600 * 1000), ToMs(hNow0))
        ELSE \E q \in Available : p < q /\ q - p <= FETCH_STEP

\* C2 (amended): a first sync_contract run that completes leaves every point of
\* the available history in storage when the newest point lies in the first
\* window and consecutive points are at most _FETCH_STEP hours apart.
C2_ConvergesStepSpaced ==
    (hOp = "sync" /\ hPc = "done" /\ hStartKeys = {} /\ StepSpaced)
        => Available \subseteq StoredTimestamps

C2_Witness ==
    /\ hOp = "sync" /\ hPc = "done" /\ hStartKeys = {} /\ StepSpaced
    /\ Cardinality(Available) >= 3
    /\ Cardinality(hDone) >= 2
    /\ StoredTimestamps = Available

\* C3: in a sync_contract run at most one window request is in flight; while
\* one is, every batch fetched before it is committed, and its anchor is the
\* oldest timestamp seen so far.
C3_PersistBeforeAdvance ==
    hOp = "sync" =>
        /\ Cardinality(hInflight) <= 1
        /\ \A w \in hInflight :
              /\ hRunFetched \subseteq StoredTimestamps
              /\ hRunFetched # {} => w.end_ms = ToMs(SetMin(hRunFetched))
              /\ hRunFetched = {} => w.end_ms = ToMs(hNow0)

C3_Witness ==
    /\ hOp = "sync" /\ hPc = "request" /\ hInflight # {}
    /\ Cardinality(hDone) >= 2
    /\ Cardinality(hRunFetched) >= 3

\* The newest timestamp stored when the run started: the anchor of a catch-up.
StartAnchor == SetMax(hStartKeys)

\* The venue's points newer than the anchor that were published when the run
\* started and that the window up to then covers.
NewPoints ==
    {h \in schedule : h > StartAnchor /\ h < hNow0
                        /\ InWindow(h, ToMs(StartAnchor), ToMs(hNow0))}

\* C4: with history stored up to T and new points in (T, now], update_contract
\* calls fetch_history_after once, anchored at T, and afterwards storage holds
\* the old points plus exactly the new points (nothing changes when there are
\* no new points).
C4_CatchUpStoresNewPoints ==
    (hOp = "update" /\ hPc = "done" /\ hStartKeys # {}) =>
        /\ hReqs = {[start_ms |-> ToMs(StartAnchor), end_ms |-> ToMs(hNow0)]}
        /\ hStartKeys \cup NewPoints \subseteq StoredTimestamps
        /\ StoredTimestamps \subseteq
              hStartKeys \cup {h \in schedule : h > StartAnchor /\ h <= hNow0}
        /\ HistUnique

\* C6: when the fetch of a window fails, the operation has stopped with the
\* error surfaced, no window request is left in flight or issued later in the
\* invocation, and every point committed by the earlier windows is in storage.
C6_WindowFailurePolicy ==
    /\ [](hPc = "failed" =>
            /\ hErr = "FetchError"
            /\ hInflight = {}
            /\ hSession = None
            /\ hRunCommitted \subseteq StoredTimestamps)
    /\ [][hPc = "failed" => (hPc' = "failed" /\ hReqs' = hReqs) \/ hDone' = {}]_vars

C6_Witness ==
    /\ hPc = "failed" /\ hOp = "sync"
    /\ Cardinality(hDone) >= 2
    /\ Cardinality(hRunCommitted) >= 2
    /\ hRunCommitted \subseteq StoredTimestamps

\* The window of one step that ends at hour h.
StepWindowEndingAt(h) ==
    [start_ms |-> ToMs(h - FETCH_STEP), end_ms |-> ToMs(h)]

OneRowPerKey(table) ==
    \A r \in BagToSet(table) :
       /\ CopiesIn(r, table) = 1
       /\ \A s \in BagToSet(table) :
             (s.contract_id = r.contract_id /\ s.timestamp = r.timestamp) => s = r

RecordKeys(records) ==
    {[contract_id |-> r.contract_id, timestamp |-> r.timestamp] : r \in SeqRange(records)}

\* No two rows of the table and the two batches give one key two rates.
SameKeySameRate(table, A, B) ==
    \A r, s \in BagToSet(table) \cup SeqRange(A) \cup SeqRange(B) :
       (r.contract_id = s.contract_id /\ r.timestamp = s.timestamp) => r = s

\* The relation the last direct insert wrote, as it is now.
LastWritten == IF storeLast[1].relation = "historical" THEN histTable ELSE liveTable

\* The laws of bulk-insert-ignore for a relation holding `table`, a batch A
\* and every other batch B: applying A twice is applying it once; A and B in
\* either order, or concatenated, leave one row per key and the same keys;
\* rows already stored stay as they are; the rows themselves are the same in
\* either order when no key comes with two rates.
InsertIgnoreLaws(table, A) ==
    LET TA == bulk_insert_ignore(table, A)
    IN  /\ bulk_insert_ignore(TA, A) = TA
        /\ \A B \in Batches :
              LET TAB == bulk_insert_ignore(TA, B)
                  TBA == bulk_insert_ignore(bulk_insert_ignore(table, B), A)
                  TU  == bulk_insert_ignore(table, A \o B)
              IN  /\ OneRowPerKey(TAB)
                  /\ OneRowPerKey(TBA)
                  /\ TU = TAB
                  /\ Keys(TAB) = Keys(table) \cup RecordKeys(A) \cup RecordKeys(B)
                  /\ Keys(TBA) = Keys(TAB)
                  /\ BagToSet(table) \subseteq BagToSet(TAB)
                  /\ SameKeySameRate(table, A, B) => TBA = TAB

LiveStored(n) ==
    /\ OneRowPerKey(liveTable)
    /\ Keys(liveTable) = Keys(lStartTable) \cup RecordKeys(lRecords)
    /\ BagToSet(lStartTable) \subseteq BagToSet(liveTable)
    /\ (RecordKeys(lRecords) \cap Keys(lStartTable) = {}) =>
          /\ BagCardinality(liveTable) = BagCardinality(lStartTable) + n
          /\ BagToSet(liveTable) = BagToSet(lStartTable) \cup SeqRange(lRecords)

Covered == {c \in lContracts : format_symbol(c) \in lVenueAnswer}

C10_EmptyInputsAreNoOp ==
    /\ (lPc \notin {"idle", "read", "cancelled"} /\ lContracts = {})
       => /\ lPc = "done"
          /\ lErr = "none"
          /\ lAdapterCalls = 0
          /\ lWriteUnits = 0
          /\ lSession = None
          /\ liveTable = lStartTable
    /\ (lPc \in {"write", "exit", "done"} /\ lContracts # {} /\ DOMAIN lRates = {})
       => /\ lPc = "done"
          /\ lErr = "none"
          /\ lAdapterCalls > 0
          /\ lWriteUnits = 0
          /\ lSession = None
          /\ liveTable = lStartTable

\* A second pass got an empty rate map and left the stored points alone.
C10_Witness ==
    /\ lPc = "done"
    /\ lContracts # {}
    /\ DOMAIN lRates = {}
    /\ lAdapterCalls > 0
    /\ liveTable # EmptyBag
    /\ liveTable = lStartTable

\* C11: when the adapter's live fetch as a whole has raised, collect_live has
\* raised that same error, has called the adapter's live method once and not
\* again, has opened no write unit and has left the live points as they were.
C11_LiveErrorPropagates ==
    /\ lPc = "raised"
       => /\ lRaised \in AdapterErrors
          /\ lErr = lRaised
          /\ lAdapterCalls = 1
          /\ lWriteUnits = 0
          /\ lSession = None
          /\ lRecords = <<>>
          /\ liveTable = lStartTable
    /\ lRaised # "none" => lPc = "raised"

\* A second pass raised over points a first pass had stored.
C11_Witness ==
    /\ lPc = "raised"
    /\ lErr = "KeyError"
    /\ lRuns = 2
    /\ liveTable # EmptyBag

\* ------------------------------------------------------- claims: unit of work
\* C16: on every exit of a unit exactly one of commit and rollback is invoked,
\* commit if and only if the body finished without an exception, and the
\* session is closed; after the exit of a unit whose body raised, storage is
\* what it was when the unit opened, and after an undisturbed exit of a unit
\* whose body finished, storage holds the body's writes.
C16_CommitXorRollback ==
    lExit # None =>
        LET x == lExit[1]
        IN  /\ x.exit.committed # x.exit.rolled_back
            /\ x.exit.committed <=> ~x.exc_val
            /\ x.exit.closed
            /\ x.exc_val => liveTable = x.before
            /\ (~x.exc_val /\ ~x.interrupted) => liveTable = x.session

\* A write unit whose body had inserted rows was exited with an exception.
C16_Witness ==
    /\ lExit # None
    /\ lExit[1].exc_val
    /\ lExit[1].session # lExit[1].before
    /\ lExit[1].exit.rolled_back
    /\ liveTable = lExit[1].before

\* The live points of the pass, all stored.
WholeBatch == bulk_insert_ignore(lStartTable, lRecords)

C18_NoUnitSpansFetch ==
    /\ lUnits \in {0, 1}
    /\ lUnits = 1 <=> lSession # None
    /\ lSession # None <=> lPc \in {"read", "exit"}
    /\ (lPc \in {"fetch", "write"} \/ foInflight # {} \/ foPending # {}) => lUnits = 0

\* A fan-out call is in flight after the read unit was closed.
C18_Witness ==
    /\ lPc = "fetch"
    /\ foInflight # {}
    /\ lExit # None
    /\ lExit[1].exit.closed
    /\ lUnits = 0

\* ------------------------------------------------------- claims: fan-out
\* The sets are pairwise disjoint.
Disjoint(sets) == \A i, j \in 1..Len(sets) : i # j => sets[i] \cap sets[j] = {}

WrittenByPass == liveTable (-) lStartTable

FullyApplied(before, listing) ==
    [c \in DOMAIN before \cup DOMAIN listing |->
        IF c \in DOMAIN listing
        THEN [active |-> TRUE, funding_interval_hours |-> listing[c]]
        ELSE [before[c] EXCEPT !.active = FALSE]]

Reconciled ==
    rPc = "done" =>
        /\ \A c \in DOMAIN rListing[1] :
              /\ c \in DOMAIN contractTable
              /\ contractTable[c].active
              /\ contractTable[c].funding_interval_hours = rListing[1][c]
        /\ \A c \in DOMAIN rStartTable \ DOMAIN rListing[1] :
              /\ c \in DOMAIN contractTable
              /\ rStartTable[c].active => ~contractTable[c].active

NoRowDeleted == DOMAIN contractTable \subseteq DOMAIN contractTable'

\* C19: when register_contracts has returned, every listed contract is stored
\* active with the listed funding interval and every contract that was active
\* and is not listed is stored inactive; no step of any run of
\* register_contracts removes a Contract row.
C19_DeactivatesNeverDeletes == []Reconciled /\ [][NoRowDeleted]_vars

\* A run created a row, changed the interval of another and delisted a third.
C19_Witness ==
    /\ rPc = "done"
    /\ \E c \in DOMAIN rListing[1] : c \notin DOMAIN rStartTable
    /\ \E c \in DOMAIN rListing[1] \cap DOMAIN rStartTable :
          rStartTable[c].funding_interval_hours # contractTable[c].funding_interval_hours
    /\ \E c \in DOMAIN rStartTable \ DOMAIN rListing[1] :
          rStartTable[c].active /\ ~contractTable[c].active

\* What a reader's fresh unit finds active over some Contract rows.
ReaderSees(table) == get_active_by_section(aenter(table))

\* C20: when register_contracts has failed, in the listing fetch or in a row
\* operation, the stored contracts are those of before the call; at every
\* moment the stored contracts, and so what a reader finds active, are those
\* of before the call or those with the listing applied in full, the latter
\* only once the run has returned.
C20_ReconciliationAtomic ==
    /\ rPc = "failed" => contractTable = rStartTable
    /\ rPc # "done" => contractTable = rStartTable
    /\ rPc = "done" => contractTable = FullyApplied(rStartTable, rListing[1])
    /\ ReaderSees(contractTable) \in
          {ReaderSees(rStartTable)} \cup
          (IF rListing = None THEN {}
           ELSE {ReaderSees(FullyApplied(rStartTable, rListing[1]))})

\* A run failed after part of the listing had been applied in its session.
C20_Witness ==
    /\ rPc = "failed"
    /\ rListing # None
    /\ rDropped # None
    /\ rDropped[1] # rStartTable
    /\ rDropped[1] # FullyApplied(rStartTable, rListing[1])
    /\ contractTable = rStartTable

\* ------------------------------------------------------------- claims: adapters
\* The class statements so far, accepted or refused.
ClassStatements == adapterClasses \cup adapterRejected

\* A class implements a live method when it or an adapter class it derives
\* from defines one (BaseExchange's raising stubs do not count).
Implements(cls, name) ==
    \/ name \in cls.dict
    \/ \E i \in 1..Len(Ancestors(cls)) : name \in Ancestors(cls)[i].dict

HasIdentifier(cls) ==
    \/ "EXCHANGE_ID" \in cls.dict
    \/ \E i \in 1..Len(Ancestors(cls)) : "EXCHANGE_ID" \in Ancestors(cls)[i].dict

\* C12: a class statement is refused exactly when the class lacks the
\* exchange identifier or implements neither live method, a method inherited
\* from an intermediate adapter class counting as implemented; adapters are
\* built only from classes that exist.
C12_FailFastValidation ==
    /\ \A cls \in ClassStatements :
          cls \in adapterClasses <=>
             /\ HasIdentifier(cls)
             /\ Implements(cls, "fetch_live_batch") \/ Implements(cls, "fetch_live")
    /\ adapterInstances \subseteq {k.id : k \in adapterClasses}
    /\ adapterClasses \cap adapterRejected = {}

\* C13: every class the validation accepted implements exactly one of
\* fetch_live_batch and fetch_live.
C13_ExactlyOneLiveMethod ==
    \A cls \in adapterClasses :
       Implements(cls, "fetch_live_batch") # Implements(cls, "fetch_live")

\* ------------------------------------------------------------- claims: windows
\* C14: the backward window of every adapter, both bounds included, holds at
\* most the venue's per-call record cap of settlement instants of a contract
\* that settles at the venue's minimum funding interval.
C14_FetchStepConservative ==
    wProbe # None =>
       Cardinality(SettlementsIn(VenueMinInterval(wProbe[1].venue), wProbe[1].window))
          <= VenueLimit(wProbe[1].venue)

Count(call) == Cardinality({i \in 1..Len(uCalls) : uCalls[i] = call})

\* C23: __aexit__ calls commit or rollback once, never both, and after it
\* the session close once, never before it; when __aexit__ has been left, in
\* whatever way, the close has been called and is running or done; what the
\* commit or rollback raised is what __aexit__ raises, unless the task was
\* cancelled while the close was awaited.
C23_SessionAlwaysClosed ==
    /\ Count("close") <= 1
    /\ Count("commit") + Count("rollback") <= 1
    /\ Count("close") = 1 => (Len(uCalls) = 2 /\ uCalls[2] = "close")
    /\ uPc = "exited" =>
          /\ uCalls = <<aexit_call(uExcVal), "close">>
          /\ uClose \in {"running", "done"}
          /\ uRaised \in {uAttemptErr, "CancelledError"}
          /\ uAttemptErr # "none" => uRaised # "none"
    /\ uClose = "done" => uSession = None

\* A commit raised: no rollback followed, the session was closed and the
\* commit's error left __aexit__.
C23_Witness ==
    /\ uPc = "exited"
    /\ uExcVal = "none"
    /\ uAttemptErr = "DBAPIError"
    /\ uCalls = <<"commit", "close">>
    /\ uClose = "done"
    /\ uRaised = "DBAPIError"
    /\ uTable # EmptyBag

====
